---- MODULE Spec2Model ----
(***************************************************************************)
(* A model of MesonPy's connection pipeline                                *)
(* (MesonPy/Communication/Pipeline.py) and of its RPC processor            *)
(* (MesonPy/Processor/RPC.py).                                             *)
(*                                                                         *)
(* Both run on one asyncio event loop: a coroutine runs without            *)
(* interruption from one suspension point to the next, so each action      *)
(* below is the code between two suspension points.  asyncio.Queue is      *)
(* unbounded here (no maxsize): put() never suspends, get() suspends only  *)
(* on an empty queue.  Tasks made by asyncio.ensure_future start in the    *)
(* order they were made.                                                   *)
(***************************************************************************)
EXTENDS Naturals, Sequences, FiniteSets

(***************************************************************************)
(* Bounds of the model.                                                    *)
(***************************************************************************)
\* frames the transport delivers to the consume loop
MaxRecv == 2
\* calls of the Send Pipeline's process(message)
MaxSend == 2
\* close() generators that code outside the three loops runs to the end
MaxExtClose == 2
\* recv_message() calls made by code outside the process-incoming loop
MaxExtRecv == 1
\* push(instructionCtx) calls on the RPC processor
MaxPush == 2
\* register(name, method) calls on the RPC processor
MaxReg == 2

VARIABLES
    \* ---- CommunicationPipeline (Pipeline.py 39-47) ----
    _close,         \* self._close
    websocket,      \* self.websocket.state_name: "OPEN", "CLOSING", "CLOSED"
    sendQueue,      \* self.sendQueue
    receivedQueue,  \* self.receivedQueue
    task,           \* position of consume(), produce() and process_co()
    taskExc,        \* the tasks that ended by an exception leaving the coroutine
    runPc,          \* position of run(): "init", "waiting", "returned"
    prodMsg,        \* produce()'s local `message` while websocket.send runs
    sendTasks,      \* send(sendMsg) tasks made by ensure_future, not yet run
    \* ---- the collaborators, as the pipeline sees them ----
    wire,           \* frames websocket.send() wrote, in order
    delivered,      \* messages rootHandler.co.send was called with, in order
    peerClosed,     \* the connection was closed by the other side
    sendRaised,     \* the last SendMessagePipeline.process call raised
    extRecv,        \* outcome of the last recv_message() call made from outside
    \* ---- counters the properties are stated with ----
    closeCalls,     \* calls of close(), run or not
    wsCloseCalls,   \* calls of self.websocket.close()
    nRecv,          \* frames received from the transport so far
    nSend,          \* calls of SendMessagePipeline.process so far
    nExtClose,      \* close() generators run by outside code so far
    nExtRecv,       \* recv_message() calls made by outside code so far
    \* ---- RPCProcessor (RPC.py 79-83) ----
    instructions,   \* self.instructions: a dict, method name -> handler
    executionQueue, \* self.executionQueue
    idleFuture,     \* self.idleFuture: None, or a Future pending or done
    pushTasks,      \* co_push(instructionCtx) tasks made by push, not yet run
    driver,         \* the coroutine that drives the processor: "rest",
                    \* "idle" (in idle()), "get" (in step()'s get()),
                    \* "exec" (in step()'s handler call)
    cur,            \* the request context step() dequeued last
    \* ---- history of the processor, for the properties ----
    pushLog,        \* ids of the contexts in the order push() was called
    stepLog,        \* ids of the contexts in the order step() dequeued them
    regLog,         \* per name, the handlers register() was called with, in order
    idleLog,        \* how the last idle() went, and the context that woke it
    pushFailed,     \* co_push tasks that ended by an exception
    \* ---- one RPCExecutionContext and the handler it is executed with ----
    ec

pipeVars == <<_close, websocket, sendQueue, receivedQueue, task, taskExc, runPc,
              prodMsg, sendTasks, wire, delivered, peerClosed, sendRaised,
              extRecv, closeCalls, wsCloseCalls, nRecv, nSend, nExtClose,
              nExtRecv>>

rpcVars == <<instructions, executionQueue, idleFuture, pushTasks, driver, cur,
             pushLog, stepLog, regLog, idleLog, pushFailed>>

execVars == <<ec>>

vars == <<pipeVars, rpcVars, execVars>>

PipelineOnly == UNCHANGED <<rpcVars, execVars>>

ProcessorOnly == UNCHANGED <<pipeVars, execVars>>

ExecutionOnly == UNCHANGED <<pipeVars, rpcVars>>

Tasks == {"consumer", "producer", "process"}

NoMsg == 0

\* produce()'s local `message` before the first sendQueue.get() returned
NoSendMsg == [id |-> 0, type |-> "NoneType"]

(***************************************************************************)
(* CommunicationPipeline.__init__                                          *)
(***************************************************************************)
InitPipeline ==
    /\ _close = FALSE
    /\ websocket = "OPEN"
    /\ sendQueue = <<>>
    /\ receivedQueue = <<>>
    /\ task = [t \in Tasks |-> "none"]
    /\ taskExc = {}
    /\ runPc = "init"
    /\ prodMsg = NoSendMsg
    /\ sendTasks = <<>>
    /\ wire = <<>>
    /\ delivered = <<>>
    /\ peerClosed = FALSE
    /\ sendRaised = FALSE
    /\ extRecv = [state |-> "none", msg |-> NoMsg]
    /\ closeCalls = 0
    /\ wsCloseCalls = 0
    /\ nRecv = 0
    /\ nSend = 0
    /\ nExtClose = 0
    /\ nExtRecv = 0

(***************************************************************************)
(* close_websocket(): the transport's close is called unless the transport *)
(* is closing or closed already.                                           *)
(***************************************************************************)
close_websocket_calls(ws) == ws \notin {"CLOSING", "CLOSED"}

(***************************************************************************)
(* close() is a generator function (it contains `yield from`): the call    *)
(* self.close() only makes a generator object, and the body runs when      *)
(* somebody iterates it.                                                   *)
(*                                                                         *)
(* close_body is the body, run up to the suspension in websocket.close()   *)
(* (lines 65-70).                                                          *)
(***************************************************************************)
close_body ==
    /\ closeCalls' = closeCalls + 1
    /\ IF _close
         THEN UNCHANGED <<_close, websocket, wsCloseCalls>>
         ELSE /\ _close' = TRUE
              /\ IF close_websocket_calls(websocket)
                   THEN /\ websocket' = "CLOSING"
                        /\ wsCloseCalls' = wsCloseCalls + 1
                   ELSE UNCHANGED <<websocket, wsCloseCalls>>

(***************************************************************************)
(* The statement `self.close()` of the finally blocks of consume() and     *)
(* produce() (lines 94 and 105): the generator is made and dropped, its    *)
(* body never runs.                                                        *)
(***************************************************************************)
close_not_iterated ==
    /\ closeCalls' = closeCalls + 1
    /\ UNCHANGED <<_close, websocket, wsCloseCalls>>

(***************************************************************************)
(* Code outside the loops runs close() to the end:                         *)
(* `yield from pipeline.close()`.                                          *)
(***************************************************************************)
close ==
    /\ PipelineOnly
    /\ nExtClose < MaxExtClose
    /\ nExtClose' = nExtClose + 1
    /\ close_body
    /\ UNCHANGED <<sendQueue, receivedQueue, task, taskExc, runPc, prodMsg,
                   sendTasks, wire, delivered, peerClosed, sendRaised, extRecv,
                   nRecv, nSend, nExtRecv>>

(***************************************************************************)
(* The transport: websocket.close() completes; the peer closes.            *)
(***************************************************************************)
websocket_closed ==
    /\ PipelineOnly
    /\ websocket = "CLOSING"
    /\ websocket' = "CLOSED"
    /\ UNCHANGED <<_close, sendQueue, receivedQueue, task, taskExc, runPc,
                   prodMsg, sendTasks, wire, delivered, peerClosed, sendRaised,
                   extRecv, closeCalls, wsCloseCalls, nRecv, nSend, nExtClose,
                   nExtRecv>>

peer_close ==
    /\ PipelineOnly
    /\ websocket = "OPEN"
    /\ websocket' = "CLOSED"
    /\ peerClosed' = TRUE
    /\ UNCHANGED <<_close, sendQueue, receivedQueue, task, taskExc, runPc,
                   prodMsg, sendTasks, wire, delivered, sendRaised, extRecv,
                   closeCalls, wsCloseCalls, nRecv, nSend, nExtClose, nExtRecv>>

(***************************************************************************)
(* asyncio.Queue: put_nowait appends at the tail, get_nowait takes the     *)
(* head.                                                                   *)
(***************************************************************************)
put_at_head(q, item) == <<item>> \o q

ensure_future_runs_last_first(tasks, t) == <<t>> \o tasks

\* asyncio.ensure_future(coro): the task is scheduled behind the tasks made
\* before it, and the event loop starts the tasks in that order
ensure_future(tasks, t) == Append(tasks, t)

put(q, item) == Append(q, item)

(***************************************************************************)
(* consume() (lines 84-94).  Its finally block calls self.close() on       *)
(* every exit; `exc` says whether an exception leaves the coroutine.       *)
(***************************************************************************)
consume_exit(exc) ==
    /\ task' = [task EXCEPT !["consumer"] = "done"]
    /\ taskExc' = IF exc THEN taskExc \cup {"consumer"} ELSE taskExc
    /\ close_not_iterated

\* the task's first step: the while test, then the suspension in recv()
consume_start ==
    /\ PipelineOnly
    /\ task["consumer"] = "ready"
    /\ IF _close
         THEN consume_exit(FALSE)
         ELSE /\ task' = [task EXCEPT !["consumer"] = "recv"]
              /\ UNCHANGED <<taskExc, _close, websocket, closeCalls, wsCloseCalls>>
    /\ UNCHANGED <<sendQueue, receivedQueue, runPc, prodMsg, sendTasks, wire,
                   delivered, peerClosed, sendRaised, extRecv, nRecv, nSend,
                   nExtClose, nExtRecv>>

\* recv() returns a frame: it is put on receivedQueue and the while test
\* runs again.  Frames are numbered in the order the transport delivers them.
consume_recv ==
    /\ PipelineOnly
    /\ task["consumer"] = "recv"
    /\ websocket \in {"OPEN", "CLOSING"}
    /\ nRecv < MaxRecv
    /\ nRecv' = nRecv + 1
    /\ receivedQueue' = put(receivedQueue, nRecv + 1)
    /\ IF _close
         THEN consume_exit(FALSE)
         ELSE UNCHANGED <<task, taskExc, _close, websocket, closeCalls,
                          wsCloseCalls>>
    /\ UNCHANGED <<sendQueue, runPc, prodMsg, sendTasks, wire, delivered,
                   peerClosed, sendRaised, extRecv, nSend, nExtClose, nExtRecv>>

\* recv() raises websockets.exceptions.ConnectionClosed: caught at line 90
consume_ConnectionClosed ==
    /\ PipelineOnly
    /\ task["consumer"] = "recv"
    /\ websocket = "CLOSED"
    /\ consume_exit(FALSE)
    /\ UNCHANGED <<sendQueue, receivedQueue, runPc, prodMsg, sendTasks, wire,
                   delivered, peerClosed, sendRaised, extRecv, nRecv, nSend,
                   nExtClose, nExtRecv>>

\* recv() raises anything else: only the finally block runs
consume_fail ==
    /\ PipelineOnly
    /\ task["consumer"] = "recv"
    /\ consume_exit(TRUE)
    /\ UNCHANGED <<sendQueue, receivedQueue, runPc, prodMsg, sendTasks, wire,
                   delivered, peerClosed, sendRaised, extRecv, nRecv, nSend,
                   nExtClose, nExtRecv>>

(***************************************************************************)
(* produce() (lines 96-105).                                               *)
(***************************************************************************)
produce_exit(exc) ==
    /\ task' = [task EXCEPT !["producer"] = "done"]
    /\ taskExc' = IF exc THEN taskExc \cup {"producer"} ELSE taskExc
    /\ prodMsg' = NoSendMsg
    /\ close_not_iterated

\* from the while test to the next suspension: in sendQueue.get() on an
\* empty queue, else in websocket.send(message)
produce_loop ==
    IF _close
      THEN produce_exit(FALSE) /\ UNCHANGED sendQueue
      ELSE /\ IF sendQueue = <<>>
                THEN /\ task' = [task EXCEPT !["producer"] = "get"]
                     /\ prodMsg' = NoSendMsg
                     /\ UNCHANGED sendQueue
                ELSE /\ task' = [task EXCEPT !["producer"] = "send"]
                     /\ prodMsg' = Head(sendQueue)
                     /\ sendQueue' = Tail(sendQueue)
           /\ UNCHANGED <<taskExc, _close, websocket, closeCalls, wsCloseCalls>>

produce_start ==
    /\ PipelineOnly
    /\ task["producer"] = "ready"
    /\ produce_loop
    /\ UNCHANGED <<receivedQueue, runPc, sendTasks, wire, delivered, peerClosed,
                   sendRaised, extRecv, nRecv, nSend, nExtClose, nExtRecv>>

\* sendQueue.get() resumes with the head of the queue; _close is not read
produce_get ==
    /\ PipelineOnly
    /\ task["producer"] = "get"
    /\ sendQueue # <<>>
    /\ task' = [task EXCEPT !["producer"] = "send"]
    /\ prodMsg' = Head(sendQueue)
    /\ sendQueue' = Tail(sendQueue)
    /\ UNCHANGED <<_close, websocket, receivedQueue, taskExc, runPc, sendTasks,
                   wire, delivered, peerClosed, sendRaised, extRecv, closeCalls,
                   wsCloseCalls, nRecv, nSend, nExtClose, nExtRecv>>

\* websocket.send(message) wrote the frame; the while test runs again
produce_sent ==
    /\ PipelineOnly
    /\ task["producer"] = "send"
    /\ websocket = "OPEN"
    /\ wire' = Append(wire, prodMsg)
    /\ produce_loop
    /\ UNCHANGED <<receivedQueue, runPc, sendTasks, delivered, peerClosed,
                   sendRaised, extRecv, nRecv, nSend, nExtClose, nExtRecv>>

\* websocket.send(message) raises on a transport that is not open
produce_send_fail ==
    /\ PipelineOnly
    /\ task["producer"] = "send"
    /\ websocket # "OPEN"
    /\ produce_exit(TRUE)
    /\ UNCHANGED <<sendQueue, receivedQueue, runPc, sendTasks, wire, delivered,
                   peerClosed, sendRaised, extRecv, nRecv, nSend, nExtClose,
                   nExtRecv>>

(***************************************************************************)
(* recv_message() (lines 72-77): raises when _close is set at the call.    *)
(***************************************************************************)
recv_message_never_raises(flag) == FALSE

recv_message_raises(flag) == flag

(***************************************************************************)
(* process_co() (lines 108-116) with ReceivedMessagePipeline.process()     *)
(* (lines 19-22).  receivedQueue.get() does not suspend on a non-empty     *)
(* queue and rootHandler.co.send is a plain call, so the loop runs through *)
(* the queued messages in one step: either it hands all of q to the root   *)
(* handler, finds the queue empty and suspends in get(), or the root       *)
(* handler raises on the k-th message handed to it, which ends the loop    *)
(* (except Exception, line 113).                                           *)
(***************************************************************************)
process_hands_twice(d, message) == Append(Append(d, message), message)

\* ReceivedMessagePipeline.process(), lines 21-22, with the message that
\* recv_message() returned: one call of rootHandler.co.send(message)
ReceivedMessagePipeline_process(d, message) == Append(d, message)

RECURSIVE process_first(_, _, _)
\* process() called for the first k messages of q, one call per message
process_first(d, q, k) ==
    IF k = 0
      THEN d
      ELSE ReceivedMessagePipeline_process(process_first(d, q, k - 1), q[k])

process_drain(q, d) ==
    \/ /\ delivered' = process_first(d, q, Len(q))
       /\ receivedQueue' = <<>>
       /\ task' = [task EXCEPT !["process"] = "get"]
    \/ \E k \in 1..Len(q) :
          /\ delivered' = process_first(d, q, k)
          /\ receivedQueue' = SubSeq(q, k + 1, Len(q))
          /\ task' = [task EXCEPT !["process"] = "done"]

process_co_start ==
    /\ PipelineOnly
    /\ task["process"] = "ready"
    /\ IF _close \/ recv_message_raises(_close)
         THEN /\ task' = [task EXCEPT !["process"] = "done"]
              /\ UNCHANGED <<receivedQueue, delivered>>
         ELSE process_drain(receivedQueue, delivered)
    /\ UNCHANGED <<_close, websocket, sendQueue, taskExc, runPc, prodMsg,
                   sendTasks, wire, peerClosed, sendRaised, extRecv, closeCalls,
                   wsCloseCalls, nRecv, nSend, nExtClose, nExtRecv>>

\* receivedQueue.get() resumes with the head of the queue: it is handed to
\* the root handler whatever _close is by now, and then the while test runs
process_co_get ==
    /\ PipelineOnly
    /\ task["process"] = "get"
    /\ receivedQueue # <<>>
    /\ LET d == ReceivedMessagePipeline_process(delivered, Head(receivedQueue))
       IN  \/ /\ delivered' = d
              /\ receivedQueue' = Tail(receivedQueue)
              /\ task' = [task EXCEPT !["process"] = "done"]
           \/ IF _close \/ recv_message_raises(_close)
                THEN /\ delivered' = d
                     /\ receivedQueue' = Tail(receivedQueue)
                     /\ task' = [task EXCEPT !["process"] = "done"]
                ELSE process_drain(Tail(receivedQueue), d)
    /\ UNCHANGED <<_close, websocket, sendQueue, taskExc, runPc, prodMsg,
                   sendTasks, wire, peerClosed, sendRaised, extRecv, closeCalls,
                   wsCloseCalls, nRecv, nSend, nExtClose, nExtRecv>>

(***************************************************************************)
(* run() (lines 118-130): three tasks, then                                *)
(* asyncio.wait(..., return_when=FIRST_COMPLETED).                         *)
(***************************************************************************)
ALL_COMPLETED == \A t \in Tasks : task[t] = "done"

FIRST_COMPLETED == \E t \in Tasks : task[t] = "done"

run_start ==
    /\ PipelineOnly
    /\ runPc = "init"
    /\ runPc' = "waiting"
    /\ task' = [t \in Tasks |-> "ready"]
    /\ UNCHANGED <<_close, websocket, sendQueue, receivedQueue, taskExc, prodMsg,
                   sendTasks, wire, delivered, peerClosed, sendRaised, extRecv,
                   closeCalls, wsCloseCalls, nRecv, nSend, nExtClose, nExtRecv>>

run_return ==
    /\ PipelineOnly
    /\ runPc = "waiting"
    /\ FIRST_COMPLETED
    /\ runPc' = "returned"
    /\ UNCHANGED <<_close, websocket, sendQueue, receivedQueue, task, taskExc,
                   prodMsg, sendTasks, wire, delivered, peerClosed, sendRaised,
                   extRecv, closeCalls, wsCloseCalls, nRecv, nSend, nExtClose,
                   nExtRecv>>

(***************************************************************************)
(* SendMessagePipeline.process(sendMsg) (lines 32-36) and the send() task  *)
(* it makes (lines 79-82).  The messages are numbered in the order of the  *)
(* calls and carry the type of the argument.                               *)
(***************************************************************************)
SendMsgTypes == {"str", "dict"}

type_check_dropped(sendMsg) == FALSE

\* line 33: type(sendMsg) is not str
type_is_not_str(sendMsg) == sendMsg.type # "str"

SendMessagePipeline_process ==
    /\ PipelineOnly
    /\ nSend < MaxSend
    /\ nSend' = nSend + 1
    /\ \E t \in SendMsgTypes :
          LET sendMsg == [id |-> nSend + 1, type |-> t]
          IN  IF type_is_not_str(sendMsg)
                THEN /\ sendRaised' = TRUE
                     /\ UNCHANGED sendTasks
                ELSE /\ sendRaised' = FALSE
                     /\ sendTasks' = ensure_future(sendTasks, sendMsg)
    /\ UNCHANGED <<_close, websocket, sendQueue, receivedQueue, task, taskExc,
                   runPc, prodMsg, wire, delivered, peerClosed, extRecv,
                   closeCalls, wsCloseCalls, nRecv, nExtClose, nExtRecv>>

send ==
    /\ PipelineOnly
    /\ sendTasks # <<>>
    /\ sendQueue' = put(sendQueue, Head(sendTasks))
    /\ sendTasks' = Tail(sendTasks)
    /\ UNCHANGED <<_close, websocket, receivedQueue, task, taskExc, runPc,
                   prodMsg, wire, delivered, peerClosed, sendRaised, extRecv,
                   closeCalls, wsCloseCalls, nRecv, nSend, nExtClose, nExtRecv>>

(***************************************************************************)
(* recv_message() called by code outside process_co (lines 72-77).         *)
(***************************************************************************)
recv_message ==
    /\ PipelineOnly
    /\ nExtRecv < MaxExtRecv
    /\ extRecv.state # "waiting"
    /\ nExtRecv' = nExtRecv + 1
    /\ IF recv_message_raises(_close)
         THEN /\ extRecv' = [state |-> "raised", msg |-> NoMsg]
              /\ UNCHANGED receivedQueue
         ELSE IF receivedQueue = <<>>
                THEN /\ extRecv' = [state |-> "waiting", msg |-> NoMsg]
                     /\ UNCHANGED receivedQueue
                ELSE /\ extRecv' = [state |-> "returned",
                                    msg |-> Head(receivedQueue)]
                     /\ receivedQueue' = Tail(receivedQueue)
    /\ UNCHANGED <<_close, websocket, sendQueue, task, taskExc, runPc, prodMsg,
                   sendTasks, wire, delivered, peerClosed, sendRaised,
                   closeCalls, wsCloseCalls, nRecv, nSend, nExtClose>>

recv_message_get ==
    /\ PipelineOnly
    /\ extRecv.state = "waiting"
    /\ receivedQueue # <<>>
    /\ extRecv' = [state |-> "returned", msg |-> Head(receivedQueue)]
    /\ receivedQueue' = Tail(receivedQueue)
    /\ UNCHANGED <<_close, websocket, sendQueue, task, taskExc, runPc, prodMsg,
                   sendTasks, wire, delivered, peerClosed, sendRaised,
                   closeCalls, wsCloseCalls, nRecv, nSend, nExtClose, nExtRecv>>


(***************************************************************************)
(*                    RPCExecutionContext (RPC.py 30-55)                   *)
(*                                                                         *)
(* A payload is [method, kargs, args]: `kargs` is the value under the key  *)
(* 'kargs', a dict given as a set of <<key, value>> pairs, and `args` the  *)
(* value under 'args', a list; `has` says whether the key is there.        *)
(***************************************************************************)
None == "None"

NoMethod == "<no method>"

SESSION == "__session__"

Sessions == {"S1", "S2"}

\* the handlers: one declares the parameter __session__, one does not
Handlers == {"handler_with_session", "handler"}

\* inspect.getfullargspec(method), line 47
DeclaresSession(method) == method = "handler_with_session"

KargsValues ==
    { [has |-> FALSE, d |-> {}],
      [has |-> TRUE, d |-> {}],
      [has |-> TRUE, d |-> {<<"a", "1">>}],
      [has |-> TRUE, d |-> {<<SESSION, "X">>}],
      [has |-> TRUE, d |-> {<<"a", "1">>, <<SESSION, "X">>}] }

ArgsValues ==
    { [has |-> FALSE, l |-> <<>>],
      [has |-> TRUE, l |-> <<>>],
      [has |-> TRUE, l |-> <<"p1", "p2">>] }

RPCExecutionContext_args_first(session, payload) ==
    [ session |-> session,
      args |-> IF payload.args.has /\ payload.args.l # <<>>
                 THEN [type |-> "list", d |-> {}, l |-> payload.args.l]
                 ELSE IF payload.kargs.has /\ payload.kargs.d # {}
                        THEN [type |-> "dict", d |-> payload.kargs.d, l |-> <<>>]
                        ELSE [type |-> "list", d |-> {}, l |-> <<>>] ]

\* __init__, lines 31-40: self.session and self.args
RPCExecutionContext(session, payload) ==
    [ session |-> session,
      args |-> IF payload.kargs.has /\ payload.kargs.d # {}
                 THEN [type |-> "dict", d |-> payload.kargs.d, l |-> <<>>]
                 ELSE IF payload.args.has /\ payload.args.l # <<>>
                        THEN [type |-> "list", d |-> {}, l |-> payload.args.l]
                        ELSE [type |-> "list", d |-> {}, l |-> <<>>] ]

\* {**a, **b}: on a key of both, b's value stands
dict_merge(a, b) == b \cup {p \in a : \A q \in b : q[1] # p[1]}

\* execute(method), lines 42-55: the arguments of method(*args, **kargs)
execute(self, method) ==
    LET kargs == IF DeclaresSession(method)
                   THEN {<<SESSION, self.session>>}
                   ELSE {}
    IN  IF self.args.type = "dict"
          THEN [pos |-> <<>>, kw |-> dict_merge(kargs, self.args.d)]
          ELSE [pos |-> self.args.l, kw |-> kargs]

NoCall == [pos |-> <<>>, kw |-> {}]

NoSelf == [session |-> None, args |-> [type |-> "list", d |-> {}, l |-> <<>>]]

ExecPayloads ==
    {[method |-> "ping", kargs |-> k, args |-> a] : k \in KargsValues,
                                                    a \in ArgsValues}

\* no execution context under way
InitExecNone ==
    ec = [pc |-> "none", payload |-> [method |-> NoMethod,
                                      kargs |-> [has |-> FALSE, d |-> {}],
                                      args |-> [has |-> FALSE, l |-> <<>>]],
          session |-> None, method |-> None, self |-> NoSelf, call |-> NoCall]

\* a request context's payload and session, and a handler
InitExec ==
    \E p \in ExecPayloads, s \in Sessions, h \in Handlers :
        ec = [pc |-> "new", payload |-> p, session |-> s, method |-> h,
              self |-> NoSelf, call |-> NoCall]

RPCExecutionContext_init ==
    /\ ExecutionOnly
    /\ ec.pc = "new"
    /\ ec' = [ec EXCEPT !.pc = "built",
                        !.self = RPCExecutionContext(ec.session, ec.payload)]

RPCExecutionContext_execute ==
    /\ ExecutionOnly
    /\ ec.pc = "built"
    /\ ec' = [ec EXCEPT !.pc = "called", !.call = execute(ec.self, ec.method)]

\* the next request gets its execution context
RPCExecutionContext_next ==
    /\ ExecutionOnly
    /\ ec.pc = "called"
    /\ \E p \in ExecPayloads, s \in Sessions, h \in Handlers :
          ec' = [pc |-> "new", payload |-> p, session |-> s, method |-> h,
                 self |-> NoSelf, call |-> NoCall]

NextExec ==
    \/ RPCExecutionContext_init
    \/ RPCExecutionContext_execute
    \/ RPCExecutionContext_next

(***************************************************************************)
(*                       RPCProcessor (RPC.py 79-148)                      *)
(***************************************************************************)
\* the names register() is called with; "pong" is never registered
Names == {"ping", "dup"}

Methods == Names \cup {"pong", NoMethod}

\* the kargs and args of the payloads pushed to the processor (every
\* combination of them goes through the execution context under SpecExec)
PushedArgs ==
    { [kargs |-> [has |-> FALSE, d |-> {}],
       args |-> [has |-> TRUE, l |-> <<"p1", "p2">>]] }

NoError == [type |-> None, name |-> ""]

UnknownRemoteProcedure(procedureName) ==
    [type |-> "UnknownRemoteProcedure", name |-> procedureName]

\* instructionCtx.payload['method'] on a payload without that key, line 132
KeyError == [type |-> "KeyError", name |-> "method"]

\* whatever the handler raises
HandlerError == [type |-> "HandlerError", name |-> ""]

NoPayload == [method |-> NoMethod, kargs |-> [has |-> FALSE, d |-> {}],
              args |-> [has |-> FALSE, l |-> <<>>]]

InitProcessor ==
    /\ instructions = [n \in {} |-> None]
    /\ executionQueue = <<>>
    /\ idleFuture = [state |-> None, result |-> 0]
    /\ pushTasks = <<>>
    /\ driver = "rest"
    /\ cur = [id |-> 0, payload |-> NoPayload, session |-> None,
              instruction |-> None, called |-> FALSE, call |-> NoCall,
              ret |-> None, error |-> NoError, done |-> 0, raised |-> FALSE]
    /\ pushLog = <<>>
    /\ stepLog = <<>>
    /\ regLog = [n \in Names |-> <<>>]
    /\ idleLog = [how |-> "none", ctx |-> 0]
    /\ pushFailed = 0

\* RPCInstruction.__init__, lines 14-16
RPCInstruction(methodName, method) ==
    [methodName |-> methodName, method |-> method]

dict_setdefault(d, k, v) ==
    [x \in (DOMAIN d) \cup {k} |-> IF x \in DOMAIN d THEN d[x] ELSE v]

\* self.instructions[name] = ..., line 86: a dict holds one value per key
dict_set(d, k, v) ==
    [x \in (DOMAIN d) \cup {k} |-> IF x = k THEN v ELSE d[x]]

\* register(name, method) calls so far
RegTotal == Len(regLog["ping"]) + Len(regLog["dup"])

register ==
    /\ ProcessorOnly
    /\ RegTotal < MaxReg
    /\ \E name \in Names, method \in Handlers :
          /\ instructions' = dict_set(instructions, name,
                                      RPCInstruction(name, method))
          /\ regLog' = [regLog EXCEPT ![name] = Append(@, method)]
    /\ UNCHANGED <<executionQueue, idleFuture, pushTasks, driver, cur, pushLog,
                   stepLog, idleLog, pushFailed>>

canHandleInstruction_any_name(instruction, payload) ==
    payload.method # NoMethod

\* RPCInstruction.canHandleInstruction, lines 23-24
canHandleInstruction(instruction, payload) ==
    payload.method # NoMethod /\ payload.method = instruction.methodName

\* findSuitableInstruction, lines 88-100: the handler of the one suitable
\* instruction; None when there is none, and None when there are several
\* (that branch logs and falls off the end of the function)
findSuitableInstruction(ins, payload) ==
    LET suitableInstructions ==
            {n \in DOMAIN ins : canHandleInstruction(ins[n], payload)}
    IN  IF Cardinality(suitableInstructions) = 0
          THEN None
          ELSE IF Cardinality(suitableInstructions) > 1
                 THEN None
                 ELSE ins[CHOOSE n \in suitableInstructions : TRUE].method

\* push(instructionCtx), lines 102-103: only makes the co_push task.
\* Contexts are numbered in the order push is called.
push ==
    /\ ProcessorOnly
    /\ Len(pushLog) < MaxPush
    /\ \E m \in Methods, a \in PushedArgs :
          LET ctx == [id |-> Len(pushLog) + 1,
                      payload |-> [method |-> m, kargs |-> a.kargs,
                                   args |-> a.args],
                      session |-> "S1"]
          IN  /\ pushTasks' = ensure_future(pushTasks, ctx)
              /\ pushLog' = Append(pushLog, ctx.id)
    /\ UNCHANGED <<instructions, executionQueue, idleFuture, driver, cur,
                   stepLog, regLog, idleLog, pushFailed>>

\* co_push(instructionCtx), lines 105-109, of the task made first.
\* Future.set_result on a Future that is done raises InvalidStateError.
co_push ==
    /\ ProcessorOnly
    /\ pushTasks # <<>>
    /\ pushTasks' = Tail(pushTasks)
    /\ executionQueue' = put(executionQueue, Head(pushTasks))
    /\ IF idleFuture.state = None
         THEN UNCHANGED <<idleFuture, pushFailed>>
         ELSE IF idleFuture.state = "pending"
                THEN /\ idleFuture' = [state |-> "done",
                                       result |-> Head(pushTasks).id]
                     /\ UNCHANGED pushFailed
                ELSE /\ pushFailed' = pushFailed + 1
                     /\ UNCHANGED idleFuture
    /\ UNCHANGED <<instructions, driver, cur, pushLog, stepLog, regLog,
                   idleLog>>

idle_always_suspends(q) == TRUE

\* idle(), line 113: whether the caller suspends
idle_suspends(q) == q = <<>>

\* idle(), lines 111-117, up to its suspension or its return
idle ==
    /\ ProcessorOnly
    /\ driver = "rest"
    /\ IF idle_suspends(executionQueue)
         THEN /\ idleFuture' = [state |-> "pending", result |-> 0]
              /\ driver' = "idle"
              /\ idleLog' = [how |-> "suspended", ctx |-> 0]
         ELSE /\ idleLog' = [how |-> "immediate", ctx |-> 0]
              /\ UNCHANGED <<idleFuture, driver>>
    /\ UNCHANGED <<instructions, executionQueue, pushTasks, cur, pushLog,
                   stepLog, regLog, pushFailed>>

\* idle() resumes from `yield from self.idleFuture`, lines 115-117
idle_resume ==
    /\ ProcessorOnly
    /\ driver = "idle"
    /\ idleFuture.state = "done"
    /\ idleLog' = [how |-> "woken", ctx |-> idleFuture.result]
    /\ idleFuture' = [state |-> None, result |-> 0]
    /\ driver' = "rest"
    /\ UNCHANGED <<instructions, executionQueue, pushTasks, cur, pushLog,
                   stepLog, regLog, pushFailed>>

finally_done_skipped(n) == n

\* step(), lines 144-145: the finally block calls instructionCtx.done();
\* n counts the calls of done() on the context
finally_done(n) == n + 1

\* step(), lines 127-145, from the dequeued context to the handler call or,
\* with no instruction, to the end: the error is set, done() called, and
\* the exception raised
step_dispatch(ctx) ==
    LET instruction == findSuitableInstruction(instructions, ctx.payload)
    IN  /\ stepLog' = Append(stepLog, ctx.id)
        /\ idleLog' = IF idleLog.how = "woken"
                        THEN [idleLog EXCEPT !.how = "stepped"]
                        ELSE [how |-> "none", ctx |-> 0]
        /\ IF instruction = None
             THEN /\ cur' = [id |-> ctx.id, payload |-> ctx.payload,
                             session |-> ctx.session, instruction |-> None,
                             called |-> FALSE, call |-> NoCall, ret |-> None,
                             error |-> IF ctx.payload.method = NoMethod
                                         THEN KeyError
                                         ELSE UnknownRemoteProcedure(
                                                  ctx.payload.method),
                             done |-> finally_done(0), raised |-> TRUE]
                  /\ driver' = "rest"
             ELSE /\ cur' = [id |-> ctx.id, payload |-> ctx.payload,
                             session |-> ctx.session,
                             instruction |-> instruction, called |-> TRUE,
                             call |-> execute(RPCExecutionContext(
                                                  ctx.session, ctx.payload),
                                              instruction),
                             ret |-> None, error |-> NoError, done |-> 0,
                             raised |-> FALSE]
                  /\ driver' = "exec"

\* step(), lines 119-125: get() suspends on an empty queue
step ==
    /\ ProcessorOnly
    /\ driver = "rest"
    /\ IF executionQueue = <<>>
         THEN /\ driver' = "get"
              /\ UNCHANGED <<executionQueue, cur, stepLog, idleLog>>
         ELSE /\ step_dispatch(Head(executionQueue))
              /\ executionQueue' = Tail(executionQueue)
    /\ UNCHANGED <<instructions, idleFuture, pushTasks, pushLog, regLog,
                   pushFailed>>

step_get ==
    /\ ProcessorOnly
    /\ driver = "get"
    /\ executionQueue # <<>>
    /\ step_dispatch(Head(executionQueue))
    /\ executionQueue' = Tail(executionQueue)
    /\ UNCHANGED <<instructions, idleFuture, pushTasks, pushLog, regLog,
                   pushFailed>>

\* the handler returns: instructionCtx.ret is set, then done(), lines 136, 145
step_return ==
    /\ ProcessorOnly
    /\ driver = "exec"
    /\ cur' = [cur EXCEPT !.ret = "ret", !.done = finally_done(@)]
    /\ driver' = "rest"
    /\ UNCHANGED <<instructions, executionQueue, idleFuture, pushTasks, pushLog,
                   stepLog, regLog, idleLog, pushFailed>>

step_except_queue_lost ==
    /\ ProcessorOnly
    /\ driver = "exec"
    /\ cur' = [cur EXCEPT !.error = HandlerError, !.done = finally_done(@),
                          !.raised = TRUE]
    /\ driver' = "rest"
    /\ executionQueue' = <<>>
    /\ UNCHANGED <<instructions, idleFuture, pushTasks, pushLog, stepLog,
                   regLog, idleLog, pushFailed>>

step_except_error_not_recorded ==
    /\ ProcessorOnly
    /\ driver = "exec"
    /\ cur' = [cur EXCEPT !.done = finally_done(@), !.raised = TRUE]
    /\ driver' = "rest"
    /\ UNCHANGED <<instructions, executionQueue, idleFuture, pushTasks, pushLog,
                   stepLog, regLog, idleLog, pushFailed>>

\* the handler raises: error set, raised again, done(), lines 139-145
step_except ==
    /\ ProcessorOnly
    /\ driver = "exec"
    /\ cur' = [cur EXCEPT !.error = HandlerError, !.done = finally_done(@),
                          !.raised = TRUE]
    /\ driver' = "rest"
    /\ UNCHANGED <<instructions, executionQueue, idleFuture, pushTasks, pushLog,
                   stepLog, regLog, idleLog, pushFailed>>

NextProcessor ==
    \/ register
    \/ push
    \/ co_push
    \/ idle
    \/ idle_resume
    \/ step
    \/ step_get
    \/ step_return
    \/ step_except

(***************************************************************************)
(* The specifications.                                                     *)
(***************************************************************************)
NextPipeline ==
    \/ run_start
    \/ run_return
    \/ consume_start
    \/ consume_recv
    \/ consume_ConnectionClosed
    \/ consume_fail
    \/ produce_start
    \/ produce_get
    \/ produce_sent
    \/ produce_send_fail
    \/ process_co_start
    \/ process_co_get
    \/ SendMessagePipeline_process
    \/ send
    \/ close
    \/ websocket_closed
    \/ peer_close

Init == InitPipeline /\ InitProcessor /\ InitExecNone

Next == NextPipeline

\* one connection's pipeline, with run() the only reader of its queues
Spec == Init /\ [][Next]_vars

\* the same, with the steps the event loop and the transport are bound to
\* take: a task that can run does run, a getter of a non-empty queue
\* resumes, a send, a recv on a closed connection and a close complete
Fairness ==
    /\ WF_vars(run_return)
    /\ WF_vars(consume_start)
    /\ WF_vars(consume_ConnectionClosed)
    /\ WF_vars(produce_start)
    /\ WF_vars(produce_get)
    /\ WF_vars(produce_sent)
    /\ WF_vars(produce_send_fail)
    /\ WF_vars(process_co_start)
    /\ WF_vars(process_co_get)
    /\ WF_vars(send)
    /\ WF_vars(websocket_closed)

FairSpec == Init /\ [][Next]_vars /\ Fairness

\* the pipeline with recv_message() also called from outside process_co
NextRecv == NextPipeline \/ recv_message \/ recv_message_get

SpecRecv == Init /\ [][NextRecv]_vars

\* the RPC processor and the coroutine that drives it
SpecRPC == Init /\ [][NextProcessor]_vars

\* execution contexts, one request after the other
InitExecution == InitPipeline /\ InitProcessor /\ InitExec

SpecExec == InitExecution /\ [][NextExec]_vars

(***************************************************************************)
(*                              The claims                                 *)
(***************************************************************************)

(* C1: once close() has been called, from a loop or from outside, the      *)
(* closed-flag is set and the transport's close has been invoked exactly   *)
(* once (never twice; and once, unless the peer had closed the connection  *)
(* before, which leaves no transport to close).                            *)
C1_CloseClosesExactlyOnce ==
    closeCalls >= 1 =>
        /\ _close
        /\ wsCloseCalls <= 1
        /\ (wsCloseCalls = 1 \/ peerClosed)

(* C2: after run() has returned, the closed-flag eventually becomes true.  *)
C2_ClosedAfterRunReturns == (runPc = "returned") ~> _close

(* C3: run() starts the three loops together, has not returned while all   *)
(* three are still running, and can return as soon as one of them has      *)
(* terminated, without waiting for the other two.                          *)
C3_RunReturnsOnFirstCompleted ==
    /\ (runPc = "init") => \A t \in Tasks : task[t] = "none"
    /\ (runPc # "init") => \A t \in Tasks : task[t] # "none"
    /\ (runPc = "returned") => \E t \in Tasks : task[t] = "done"
    /\ (runPc = "waiting" /\ \E t \in Tasks : task[t] = "done")
          => ENABLED run_return

C3_Witness ==
    /\ runPc = "returned"
    /\ Cardinality({t \in Tasks : task[t] = "done"}) = 1

(* C4: a recv_message() call made when the closed-flag is true raises at   *)
(* once: it does not wait on the inbound queue and takes no message from   *)
(* it.                                                                     *)
C4_RecvMessageFailsWhenClosed ==
    [][(nExtRecv' = nExtRecv + 1 /\ _close)
          => (extRecv'.state = "raised" /\ receivedQueue' = receivedQueue)]_vars

C4_Witness ==
    /\ _close
    /\ extRecv.state = "raised"
    /\ receivedQueue # <<>>

Ids(q) == [i \in 1..Len(q) |-> q[i].id]

(* C5: step() dequeues the contexts in the order push() was called, each   *)
(* once: the contexts dequeued, then those in the queue, then those whose  *)
(* co_push task has not run, are the contexts pushed, in push order.       *)
C5_StepIsFifo ==
    stepLog \o Ids(executionQueue) \o Ids(pushTasks) = pushLog

C5_Witness ==
    /\ Len(stepLog) = 2
    /\ stepLog = pushLog

(* C6: a request with method m resolves to the handler bound to m when     *)
(* there is one; when there is none, nothing is resolved and step() fails  *)
(* with unknown-remote-procedure for m, the context finalized with its     *)
(* error set.                                                              *)
C6_DispatchByMethodName ==
    [][(Len(stepLog') = Len(stepLog) + 1 /\ cur'.payload.method # NoMethod)
          => IF cur'.payload.method \in DOMAIN instructions
               THEN /\ cur'.instruction
                          = instructions[cur'.payload.method].method
                    /\ cur'.called
                    /\ cur'.error = NoError
               ELSE /\ cur'.instruction = None
                    /\ ~cur'.called
                    /\ cur'.error
                          = UnknownRemoteProcedure(cur'.payload.method)
                    /\ cur'.raised
                    /\ cur'.done = 1]_vars

C6_Witness ==
    /\ DOMAIN instructions # {}
    /\ cur.error = UnknownRemoteProcedure("pong")
    /\ cur.instruction = None
    /\ cur.done = 1

C8_ArgumentPrecedence ==
    ec.pc = "called" =>
        IF ec.payload.kargs.has /\ ec.payload.kargs.d # {}
          THEN /\ ec.call.pos = <<>>
               /\ ec.payload.kargs.d \subseteq ec.call.kw
               /\ \A q \in ec.call.kw :
                     q \in ec.payload.kargs.d \/ q[1] = SESSION
          ELSE /\ ec.call.pos = IF ec.payload.args.has
                                  THEN ec.payload.args.l
                                  ELSE <<>>
               /\ \A q \in ec.call.kw : q[1] = SESSION

C8_Witness ==
    /\ ec.pc = "called"
    /\ ec.payload.kargs.d # {}
    /\ ec.payload.args.l # <<>>
    /\ ec.call.pos = <<>>
    /\ ec.payload.kargs.d \subseteq ec.call.kw

(* C9: a handler that declares __session__ is called with __session__      *)
(* bound to the request context's session, whatever the payload; a handler *)
(* that does not declare it is not passed the session.                     *)
C9_SessionInjected ==
    ec.pc = "called" =>
        IF DeclaresSession(ec.method)
          THEN {q \in ec.call.kw : q[1] = SESSION} = {<<SESSION, ec.session>>}
          ELSE <<SESSION, ec.session>> \notin ec.call.kw

(* C10: idle() suspends exactly when the queue is empty, and stays         *)
(* suspended as long as no push has put a context on the queue; the        *)
(* context whose push woke it is the head of the queue when it returns,    *)
(* and is the one the next step() dequeues.                                *)
C10_IdleWaitsForPush ==
    /\ (driver = "idle") = (idleLog.how = "suspended")
    /\ (driver = "idle" /\ idleFuture.state = "pending")
          => executionQueue = <<>>
    /\ (driver = "idle" /\ idleFuture.state # "pending")
          => /\ idleFuture.state = "done"
             /\ executionQueue # <<>>
             /\ Head(executionQueue).id = idleFuture.result
    /\ (idleLog.how = "immediate") => executionQueue # <<>>
    /\ (idleLog.how = "woken")
          => /\ driver = "rest"
             /\ executionQueue # <<>>
             /\ Head(executionQueue).id = idleLog.ctx
    /\ (idleLog.how = "stepped") => cur.id = idleLog.ctx

C10_Witness ==
    /\ idleLog.how = "stepped"
    /\ cur.id = idleLog.ctx
    /\ cur.id # 0

(* C11: every context step() dequeues is finalized (done() called) exactly *)
(* once, whether the handler returned, no instruction was resolved or the  *)
(* handler raised: done() has not been called while the handler runs, has  *)
(* been called once when step() is over, and never twice.                  *)
C11_FinalizedExactlyOnce ==
    /\ cur.done <= 1
    /\ driver = "exec" =>
          /\ cur.done = 0
          /\ cur.id = stepLog[Len(stepLog)]
    /\ (cur.id # 0 /\ driver # "exec") => cur.done = 1

C11_Witness ==
    /\ Len(stepLog) = 2
    /\ driver = "rest"
    /\ cur.error = HandlerError
    /\ cur.done = 1

(* C12: each process() call hands the one message it dequeued to the root  *)
(* handler, so the messages handed over, followed by those still queued,   *)
(* are the frames consume() received: the delivered sequence is a prefix   *)
(* of the received frames, in the order of their arrival, with no          *)
(* duplicate and no skip.                                                  *)
C12_InboundInOrder ==
    /\ Len(delivered) <= nRecv
    /\ \A i \in 1..Len(delivered) : delivered[i] = i
    /\ delivered \o receivedQueue = [i \in 1..nRecv |-> i]

C12_Witness ==
    /\ delivered = <<1, 2>>
    /\ task["process"] = "get"

StrictlyIncreasing(ids) ==
    \A i, j \in 1..Len(ids) : i < j => ids[i] < ids[j]

SendIds(q) == [i \in 1..Len(q) |-> q[i].id]

\* the message produce() holds between sendQueue.get() and websocket.send
InSend == IF task["producer"] = "send" THEN <<prodMsg>> ELSE <<>>

(* C13: produce() writes the messages to the transport in the order of the *)
(* SendMessagePipeline.process calls that accepted them, each at most      *)
(* once, although each enqueue is a task of its own: the call numbers of   *)
(* the frames written, then of the message being written, then of the      *)
(* queued messages, then of the messages whose send task has not run, are  *)
(* strictly increasing.                                                    *)
C13_OutboundInOrder ==
    StrictlyIncreasing(SendIds(wire \o InSend \o sendQueue \o sendTasks))

C13_Witness ==
    /\ SendIds(wire) = <<1, 2>>
    /\ task["producer"] = "get"

(* C14: a SendMessagePipeline.process call with a message that is not a    *)
(* string raises within the call and leaves the outbound queue and the     *)
(* scheduled send tasks as they were; a call that does not raise schedules *)
(* one send task; so no message that is not a string is ever scheduled,    *)
(* queued, being written or written.                                       *)
C14_NonStringRejected ==
    [][/\ nSend' # nSend =>
            /\ sendQueue' = sendQueue
            /\ IF sendRaised'
                 THEN sendTasks' = sendTasks
                 ELSE /\ Len(sendTasks') = Len(sendTasks) + 1
                      /\ SendIds(sendTasks')[Len(sendTasks')] = nSend'
       /\ \A i \in 1..Len(wire' \o InSend' \o sendQueue' \o sendTasks') :
            (wire' \o InSend' \o sendQueue' \o sendTasks')[i].type = "str"
      ]_vars

C14_Witness ==
    /\ nSend = 2
    /\ sendRaised
    /\ SendIds(wire \o InSend \o sendQueue \o sendTasks) = <<1>>

(* C15, as claimed: whenever consume() or produce() has ended, by whatever *)
(* exit, close() has taken effect: the closed-flag is true and the         *)
(* transport's close has been invoked (or the transport was closed by the  *)
(* peer, when close() has nothing left to invoke).                         *)
C15_LoopExitCloses ==
    (task["consumer"] = "done" \/ task["producer"] = "done") =>
        /\ _close
        /\ wsCloseCalls >= 1 \/ peerClosed

(* C16: when done() is called on a context, step() has set exactly one of  *)
(* its result and its error: the result and no error when the handler      *)
(* returned, the error and no result when the handler raised or no         *)
(* instruction was resolved; the error is in place when done() is called,  *)
(* and step() raises exactly when it has set the error.  Before done()     *)
(* neither is set.                                                         *)
C16_ResultXorError ==
    /\ cur.done = 0 => (cur.ret = None /\ cur.error = NoError)
    /\ cur.done >= 1 =>
          /\ (cur.ret # None) # (cur.error # NoError)
          /\ cur.raised <=> cur.error # NoError
          /\ cur.called =>
                \/ cur.ret = "ret" /\ cur.error = NoError
                \/ cur.ret = None /\ cur.error = HandlerError
          /\ ~cur.called =>
                /\ cur.ret = None
                /\ cur.error = IF cur.payload.method = NoMethod
                                 THEN KeyError
                                 ELSE UnknownRemoteProcedure(cur.payload.method)

C16_Witness ==
    /\ Len(stepLog) = 2
    /\ cur.called
    /\ cur.done = 1
    /\ cur.ret = "ret"
    /\ ~cur.raised

(* C17, as claimed: with one idle() waiter and any pushes, also several    *)
(* before the woken waiter has resumed, there is at most one idle handle,  *)
(* it is that of the waiter, and no push tries to fulfil a handle that has *)
(* been fulfilled already.                                                 *)
C17_IdleHandleFulfilledOnce ==
    /\ idleFuture.state # None => driver = "idle"
    /\ pushFailed = 0

(* C18, as claimed: once the closed-flag is true, each of the three loops  *)
(* that run() started ends eventually, the event loop and the transport    *)
(* being fair, also a loop suspended on an empty queue or in recv() that   *)
(* gets no further item.                                                   *)
C18_LoopsEndAfterClose ==
    /\ (_close /\ task["consumer"] # "none") ~> (task["consumer"] = "done")
    /\ (_close /\ task["producer"] # "none") ~> (task["producer"] = "done")
    /\ (_close /\ task["process"] # "none") ~> (task["process"] = "done")

(* C19, as claimed: once the closed-flag is true, produce() writes no      *)
(* further message to the transport and process_co() hands no further      *)
(* message to the root handler, also for a message enqueued around or      *)
(* after the close.                                                        *)
C19_NothingAfterClose ==
    [][_close => (wire' = wire /\ delivered' = delivered)]_vars

(* C20: a step() that fails, by an unresolved instruction at the dequeue   *)
(* or by the handler raising, takes only its own context: the registry,    *)
(* the idle handle, the pending pushes and the rest of the queue are as    *)
(* they were and the driver is free to call step() again; and the step()   *)
(* called after a failed one dequeues the next context in the queue and    *)
(* dispatches it by the registry, as it would without the failure.         *)
C20_FailedStepIsContained ==
    [][/\ (stepLog' # stepLog /\ cur'.raised) =>
            /\ executionQueue' = Tail(executionQueue)
            /\ cur'.id = Head(executionQueue).id
            /\ instructions' = instructions
            /\ idleFuture' = idleFuture
            /\ pushTasks' = pushTasks
            /\ driver' = "rest"
       /\ (driver = "exec" /\ cur'.raised) =>
            /\ executionQueue' = executionQueue
            /\ cur'.id = cur.id
            /\ instructions' = instructions
            /\ idleFuture' = idleFuture
            /\ pushTasks' = pushTasks
            /\ driver' = "rest"
       /\ (cur.raised /\ stepLog' # stepLog) =>
            /\ cur'.id = Head(executionQueue).id
            /\ cur'.payload = Head(executionQueue).payload
            /\ executionQueue' = Tail(executionQueue)
            /\ IF cur'.payload.method \in DOMAIN instructions
                 THEN /\ cur'.called
                      /\ cur'.instruction =
                             instructions[cur'.payload.method].method
                      /\ ~cur'.raised
                      /\ driver' = "exec"
                 ELSE /\ ~cur'.called
                      /\ cur'.raised
                      /\ cur'.done = 1
      ]_vars

C20_Witness ==
    /\ cur.id = 1
    /\ cur.raised
    /\ cur.error = HandlerError
    /\ driver = "rest"
    /\ Len(executionQueue) = 1

====
